---- MODULE Spec2Model ----
(***************************************************************************)
(* Model of src/jvo_axiio_driver.py: the register driver JvoAxiioDriver    *)
(* and the pulse-program builder JvoMarxGenerator.                         *)
(*                                                                         *)
(* Times are exact integer nanoseconds (the source uses float seconds:     *)
(* 8e-9 is 8, 100e-9 is 100), so round(t / clock_period) is the exact      *)
(* quotient rounded half-to-even, as Python 3's round() does.              *)
(*                                                                         *)
(* Cycle counts reach 2^32 + 1 and times reach 2^35 ns, beyond the         *)
(* integers TLC evaluates, so every time and every cycle count is a wide   *)
(* integer <<hi, lo>> standing for hi * 2^16 + lo with 0 <= lo < 2^16      *)
(* (hi may be negative).  Python integers are unbounded: no operation of   *)
(* the source wraps, and none of the model does.  A float quotient within  *)
(* rounding error of a tie (x.5) may round either way in the source; the   *)
(* model rounds the exact quotient.                                        *)
(*                                                                         *)
(* The driver object is the one its constructor leaves with the register   *)
(* interface self.io present (lines 29-32), so the guard of line 294 is    *)
(* true; io.write itself does not fail.  The matplotlib and pprint calls   *)
(* of _make_marx change no state of the driver and are left out, except    *)
(* that table_list, which pprint shows, is kept in the variable table.     *)
(***************************************************************************)
EXTENDS Integers, Sequences, FiniteSets, TLC

\* ------------------------------------------------------------ constants
REG_MAX_COUNT == 41
REG_IO_INIT == 40
ADDR_OFFSET == 4
\* 8e-9 s, in ns
CLOCK_PERIOD_DEFAULT == 8
NUM_OUTPUT == 20
NUM_CHANNELS == 10
\* 100e-9 s, in ns
DEAD_TIME_MIN == 100
\* the largest register number write_reg accepts (line 70)
REG_LIMIT == 41
\* the seconds the marx_* functions add to rep_rate to disable a channel: 2 s, in ns
DISABLE_OFFSET == 2000000000
\* self.clock_period as the constructor leaves it without a tcl file
clock_period == CLOCK_PERIOD_DEFAULT

\* --------------------------------------------------- wide integer arithmetic
Base == 2 ^ 16

Norm(h, l) == <<h + (l \div Base), l % Base>>

\* the wide integer of a small integer n
W(n) == Norm(0, n)

Add(a, b) == Norm(a[1] + b[1], a[2] + b[2])

Sub(a, b) == Norm(a[1] - b[1], a[2] - b[2])

\* a * k for a small integer k
Mul(a, k) == Norm(a[1] * k + ((a[2] * k) \div Base), (a[2] * k) % Base)

Lt(a, b) == a[1] < b[1] \/ (a[1] = b[1] /\ a[2] < b[2])

Le(a, b) == a[1] < b[1] \/ (a[1] = b[1] /\ a[2] <= b[2])

\* a / 2 for an even a (marx_delta's default change)
Half(a) == <<a[1] \div 2, ((a[1] % 2) * Base + a[2]) \div 2>>

TwoPow32 == <<Base, 0>>

\* PyRound with the quotient cut off instead of rounded (int() for round())
PyRoundDown(a, p) == <<a[1] \div p, ((a[1] % p) * Base + a[2]) \div p>>

\* round(a / p): the quotient rounded to the nearest integer, ties to even
PyRound(a, p) ==
    LET rest == (a[1] % p) * Base + a[2]
        q0 == rest \div p
        rem == rest % p
        q == <<a[1] \div p, q0>>
        up == 2 * rem > p \/ (2 * rem = p /\ q0 % 2 = 1)
    IN  IF up THEN Add(q, W(1)) ELSE q

\* log2(n) raises ValueError unless n > 0
Log2Defined(n) == Lt(W(0), n)

\* log2(n) > 32
Log2Gt32(n) == Lt(TwoPow32, n)

\* log2(n) >= 32
Log2Ge32(n) == Le(TwoPow32, n)

\* ------------------------------------------------------------ the driver
(* The driver object during a call: err is "" while the call runs and the  *)
(* name of the exception once one is raised; rep is self.rep_rate_cycles;  *)
(* writes are the (address, value) pairs handed to self.io.write so far.   *)
Raise(s, e) == [s EXCEPT !.err = e]

\* JvoAxiioDriver.write_reg
write_reg(s, reg, value) ==
    IF reg > REG_LIMIT
    THEN Raise(s, "RegNotAvailable")
    ELSE [s EXCEPT !.writes = Append(@, <<ADDR_OFFSET * reg, value>>)]

\* JvoAxiioDriver.set_rep_rate_cycles
set_rep_rate_cycles(s, num_cycles) ==
    IF ~Log2Defined(num_cycles) THEN Raise(s, "MathDomainError")
    ELSE IF Log2Gt32(num_cycles) THEN Raise(s, "NumberTooLarge")
    ELSE write_reg([s EXCEPT !.rep = num_cycles], REG_MAX_COUNT, num_cycles)

\* JvoAxiioDriver.set_rep_rate_seconds
set_rep_rate_seconds(s, seconds) ==
    IF Lt(seconds, W(0)) THEN Raise(s, "NegativeValue")
    ELSE LET num_cycles == PyRound(seconds, clock_period)
         IN  IF ~Log2Defined(num_cycles) THEN Raise(s, "MathDomainError")
             ELSE IF Log2Gt32(num_cycles) THEN Raise(s, "NumberTooLarge")
             ELSE set_rep_rate_cycles(s, num_cycles)

\* int(initial, 2) for a string of the characters 0 and 1, given as their digits
RECURSIVE BinValue(_)
BinValue(bits) ==
    IF bits = <<>> THEN 0
    ELSE 2 * BinValue(SubSeq(bits, 1, Len(bits) - 1)) + bits[Len(bits)]

\* JvoAxiioDriver.set_io_init
set_io_init(s, initial) ==
    IF Len(initial) # NUM_OUTPUT THEN Raise(s, "StringLength")
    ELSE IF \E i \in 1..Len(initial) : initial[i] \notin {0, 1} THEN Raise(s, "NotBinary")
    ELSE write_reg(s, REG_IO_INIT, W(BinValue(initial)))

\* JvoAxiioDriver.check_output_cycles: "True", "False", or the exception raised
check_output_cycles(s, start, stop, rep_rate_cycles_arg) ==
    LET use_latched == Le(rep_rate_cycles_arg, W(0))
        rep_rate_cycles == IF use_latched THEN s.rep ELSE rep_rate_cycles_arg
    IN  IF use_latched /\ ~Lt(W(0), s.rep) THEN "InvalidRepRate"
        ELSE IF (Lt(rep_rate_cycles, stop) /\ Lt(rep_rate_cycles, start))
                \/ (Lt(stop, W(0)) /\ Lt(start, W(0))) THEN "False"
        ELSE IF Lt(rep_rate_cycles, start) THEN "StartLargerThanRepRate"
        ELSE IF Lt(rep_rate_cycles, stop) THEN "StopLargerThanRepRate"
        ELSE IF Lt(stop, start) THEN "StopBeforeStart"
        ELSE IF stop = start THEN "StopEqualsStart"
        ELSE "True"

\* set_output_cycles with stop written to the start register and start to the stop register
set_output_cycles_reversed(s, output, start, stop) ==
    LET io_num == 4 * (output[1] - 1)
        io_offset == IF output[2] = "b" THEN 2 ELSE 0
        chk == check_output_cycles(s, start, stop, W(0))
    IN  IF chk \notin {"True", "False"} THEN Raise(s, chk)
        ELSE write_reg(write_reg(s, io_num + io_offset, stop), io_num + io_offset + 1, start)

\* JvoAxiioDriver.set_output_cycles; output is <<number, sub>>, for the string '3a' <<3, "a">>
set_output_cycles(s, output, start, stop) ==
    LET io_num == 4 * (output[1] - 1)
        io_offset == IF output[2] = "b" THEN 2 ELSE 0
        chk == check_output_cycles(s, start, stop, W(0))
    IN  IF chk \notin {"True", "False"} THEN Raise(s, chk)
        ELSE LET s1 == write_reg(s, io_num + io_offset, start)
             IN  IF s1.err # "" THEN s1
                 ELSE write_reg(s1, io_num + io_offset + 1, stop)

\* ---------------------------------------------------------- _make_marx
\* the first raise of lines 243-254 that fires for an output taken as not disabled
WindowError(output, min_width, rep_rate) ==
    IF Lt(min_width, W(clock_period)) THEN "MinWidth"
    ELSE IF Lt(rep_rate, output[2]) /\ Lt(output[1], rep_rate) THEN "LastValue"
    ELSE IF Lt(Mul(output[1], 2), rep_rate) THEN "HalfCycle"
    ELSE IF Lt(output[2], output[1]) THEN "StartAfterEnd"
    ELSE ""

\* the test of lines 240-241
NotDisabled(output, rep_rate) ==
    (Le(output[1], rep_rate) /\ Le(output[2], rep_rate))
    \/ (Lt(output[1], W(0)) /\ Lt(output[2], W(0)))

\* the value lines 259-260 give a disabled output
DisabledCycles(rep_rate_cycles) == Add(rep_rate_cycles, W(2))

\* what line 266 stores in io_init[i] for a disabled output
DisabledInit == 1

(* The loop of lines 239-269 from channel i (1-based) on.  acc holds the    *)
(* locals the loop updates: first, min_width, channel_list, io_init, and    *)
(* err, the exception that ended it.                                        *)
RECURSIVE CheckChannels(_, _, _, _, _, _)
CheckChannels(s, channels, i, acc, rep_rate, rep_rate_cycles) ==
    IF i > Len(channels) \/ acc.err # "" THEN acc
    ELSE
    LET output == channels[i]
        enabled == NotDisabled(output, rep_rate)
        width == Sub(output[2], output[1])
        min_width == IF enabled /\ Lt(width, acc.min_width) THEN width ELSE acc.min_width
        first == IF enabled /\ Lt(output[1], acc.first) THEN output[1] ELSE acc.first
        werr == IF enabled THEN WindowError(output, min_width, rep_rate) ELSE ""
        num_cycles_start == IF enabled THEN PyRound(output[1], clock_period)
                            ELSE DisabledCycles(rep_rate_cycles)
        num_cycles_stop == IF enabled THEN PyRound(output[2], clock_period)
                           ELSE DisabledCycles(rep_rate_cycles)
        chk == check_output_cycles(s, num_cycles_start, num_cycles_stop, rep_rate_cycles)
        err == IF werr # "" THEN werr
               ELSE IF chk \notin {"True", "False"} THEN chk
               ELSE ""
        next == [err |-> err,
                 first |-> first,
                 min_width |-> min_width,
                 channel_list |-> Append(acc.channel_list, <<num_cycles_start, num_cycles_stop>>),
                 io_init |-> IF err = "" /\ chk = "False"
                             THEN [acc.io_init EXCEPT ![i] = DisabledInit]
                             ELSE acc.io_init]
    IN  CheckChannels(s, channels, i + 1, next, rep_rate, rep_rate_cycles)

\* ChargeWindow without the dead time before the first pulse
ChargeWindowNoDeadTime(first_cycles, dead_time_cycles) == <<dead_time_cycles, first_cycles>>

\* lines 279-280: the charge window <<charge_start, charge_stop>>
ChargeWindow(first_cycles, dead_time_cycles) ==
    <<dead_time_cycles, Sub(first_cycles, dead_time_cycles)>>

(* The loop of lines 303-305 from channel i (1-based) on: the pulse window  *)
(* to output ia, the charge window to output ib; it ends at the first       *)
(* exception.                                                               *)
RECURSIVE ApplyChannels(_, _, _, _)
ApplyChannels(s, channel_list, i, charge) ==
    IF i > Len(channel_list) \/ s.err # "" THEN s
    ELSE
    LET sa == set_output_cycles(s, <<i, "a">>, channel_list[i][1], channel_list[i][2])
        sb == IF sa.err # "" THEN sa
              ELSE set_output_cycles(sa, <<i, "b">>, charge[1], charge[2])
    IN  ApplyChannels(sb, channel_list, i + 1, charge)

\* whether the object has the attribute io (line 294): the constructor set it
has_io == TRUE

\* lines 294-306: the register writes of a checked program
Apply(s, io_init, rep_rate_cycles, channel_list, charge) ==
    IF ~has_io THEN s
    ELSE IF SubSeq(io_init, NUM_CHANNELS + 1, NUM_OUTPUT) # [k \in 1..NUM_CHANNELS |-> 1]
    THEN Raise(s, "ChargeInitNotCorrect")
    ELSE
    LET s1 == set_io_init(s, io_init)
        s2 == IF s1.err # "" THEN s1 ELSE set_rep_rate_cycles(s1, rep_rate_cycles)
    IN  ApplyChannels(s2, channel_list, 1, charge)

\* InitialIoInit with the pulse outputs starting at 0
InitialIoInitPulseLow == [k \in 1..NUM_OUTPUT |-> IF k <= NUM_CHANNELS THEN 0 ELSE 1]

\* the initial value of io_init (line 220)
InitialIoInit == [k \in 1..NUM_OUTPUT |-> 1]

(* JvoMarxGenerator._make_marx.  The result is the object after the call    *)
(* (err, rep, writes) with table, the table_list the call printed (<<>>     *)
(* when it raised before line 292), and io_init as the call left it.        *)
make_marx(s0, channels, dead_time, rep_rate) ==
    LET s == [err |-> "", rep |-> s0.rep, writes |-> s0.writes, table |-> <<>>, io_init |-> <<>>]
        rep_rate_cycles == PyRound(rep_rate, clock_period)
        dead_time_cycles == PyRound(dead_time, clock_period)
        acc0 == [err |-> "", first |-> rep_rate, min_width |-> rep_rate,
                 channel_list |-> <<>>, io_init |-> InitialIoInit]
        acc == CheckChannels(s, channels, 1, acc0, rep_rate, rep_rate_cycles)
        first_cycles == PyRound(acc.first, clock_period)
        charge == ChargeWindow(first_cycles, dead_time_cycles)
        table == Append(acc.channel_list, charge)
    IN  IF Len(channels) > NUM_CHANNELS THEN Raise(s, "TooManyChannels")
        ELSE IF Len(channels) # NUM_CHANNELS THEN Raise(s, "WrongChannelCount")
        ELSE IF ~Log2Defined(rep_rate_cycles) THEN Raise(s, "MathDomainError")
        ELSE IF Log2Ge32(rep_rate_cycles) THEN Raise(s, "NumberTooLarge")
        ELSE IF Lt(dead_time, W(DEAD_TIME_MIN)) THEN Raise(s, "DeadTimeTooShort")
        ELSE IF acc.err # "" THEN Raise(s, acc.err)
        ELSE Apply([s EXCEPT !.table = table, !.io_init = acc.io_init],
                   acc.io_init, rep_rate_cycles, acc.channel_list, charge)

\* ------------------------------------------------------ the marx_* functions
\* a call that raised before _make_marx was entered
Failed(s0, e) == [err |-> e, rep |-> s0.rep, writes |-> s0.writes, table |-> <<>>, io_init |-> <<>>]

\* the window the marx_sync, marx_delta and marx_one loops give a channel they disable
DisabledWindow(rep_rate) == <<Add(rep_rate, W(DISABLE_OFFSET)), Add(rep_rate, W(DISABLE_OFFSET))>>

(* The channel list of marx_sync (lines 320-334): err is the exception      *)
(* raised before _make_marx is called, channels the list passed to it.      *)
(* delays_begin and delays_end are sequences, <<>> for None (and for [],    *)
(* which the tests of lines 320 and 325 treat alike).                       *)
sync_channels(pulse_length, rep_rate, num_channels, delays_begin, delays_end) ==
    LET db == IF delays_begin # <<>> THEN delays_begin ELSE [k \in 1..num_channels |-> W(0)]
        de == IF delays_end # <<>> THEN delays_end ELSE db
    IN  IF delays_begin # <<>> /\ Len(delays_begin) # num_channels
        THEN [err |-> "AssertionError", channels |-> <<>>]
        ELSE IF delays_begin # <<>> /\ \E k \in 1..Len(delays_begin) : Lt(W(0), delays_begin[k])
        THEN [err |-> "AssertionError", channels |-> <<>>]
        ELSE IF delays_end # <<>> /\ Len(delays_end) # num_channels
        THEN [err |-> "AssertionError", channels |-> <<>>]
        ELSE IF delays_end # <<>> /\ \E k \in 1..Len(delays_end) : Lt(W(0), delays_end[k])
        THEN [err |-> "AssertionError", channels |-> <<>>]
        ELSE IF num_channels > NUM_CHANNELS
        THEN [err |-> "IndexError", channels |-> <<>>]
        ELSE [err |-> "",
              channels |-> [k \in 1..NUM_CHANNELS |->
                  IF k <= num_channels
                  THEN <<Add(Sub(rep_rate, pulse_length), db[k]), Add(rep_rate, de[k])>>
                  ELSE DisabledWindow(rep_rate)]]

\* JvoMarxGenerator.marx_sync
marx_sync(s0, pulse_length, dead_time, rep_rate, num_channels, delays_begin, delays_end) ==
    LET c == sync_channels(pulse_length, rep_rate, num_channels, delays_begin, delays_end)
    IN  IF c.err # "" THEN Failed(s0, c.err)
        ELSE make_marx(s0, c.channels, dead_time, rep_rate)

(* The channel list of marx_delta (lines 349-359); change is W(0) for None  *)
(* (and for 0, which line 350 treats alike).  k is i + 1.                   *)
delta_channels(shortest_length, rep_rate, num_channels, change_arg) ==
    LET change == IF change_arg = W(0) THEN Half(shortest_length) ELSE change_arg
    IN  IF num_channels > NUM_CHANNELS
        THEN [err |-> "IndexError", channels |-> <<>>]
        ELSE [err |-> "",
              channels |-> [k \in 1..NUM_CHANNELS |->
                  IF k <= num_channels
                  THEN LET i == k - 1
                           j == num_channels - i
                           stop == Sub(rep_rate, Mul(change, j - 1))
                       IN  <<Sub(Sub(stop, shortest_length), Mul(change, 2 * i)), stop>>
                  ELSE DisabledWindow(rep_rate)]]

\* JvoMarxGenerator.marx_delta
marx_delta(s0, shortest_length, dead_time, rep_rate, num_channels, change_arg) ==
    LET c == delta_channels(shortest_length, rep_rate, num_channels, change_arg)
    IN  IF c.err # "" THEN Failed(s0, c.err)
        ELSE make_marx(s0, c.channels, dead_time, rep_rate)

\* the assertion of line 372 on the index channel - 1
ChannelIndexOk(index) == 0 < index /\ index < NUM_CHANNELS

\* The channel list of marx_one (lines 371-380); k is i + 1.
one_channels(pulse_length, rep_rate, channel_arg) ==
    LET channel == channel_arg - 1
    IN  IF ~ChannelIndexOk(channel)
        THEN [err |-> "AssertionError", channels |-> <<>>]
        ELSE [err |-> "",
              channels |-> [k \in 1..NUM_CHANNELS |->
                  IF k - 1 = channel
                  THEN <<Sub(rep_rate, pulse_length), rep_rate>>
                  ELSE DisabledWindow(rep_rate)]]

\* JvoMarxGenerator.marx_one
marx_one(s0, pulse_length, dead_time, rep_rate, channel_arg) ==
    LET c == one_channels(pulse_length, rep_rate, channel_arg)
    IN  IF c.err # "" THEN Failed(s0, c.err)
        ELSE make_marx(s0, c.channels, dead_time, rep_rate)

(* The channel list of marx_sequence (lines 393-403); time_between is W(0)  *)
(* for None (and for 0, which line 394 treats alike).  k is i + 1.          *)
sequence_channels(pulse_length, rep_rate, num_channels, time_between_arg) ==
    LET time_between == IF time_between_arg = W(0) THEN pulse_length ELSE time_between_arg
    IN  IF num_channels > NUM_CHANNELS
        THEN [err |-> "IndexError", channels |-> <<>>]
        ELSE [err |-> "",
              channels |-> [k \in 1..NUM_CHANNELS |->
                  IF k <= num_channels
                  THEN LET j == num_channels - (k - 1)
                           base == Sub(rep_rate, Mul(time_between, j - 1))
                       IN  <<Sub(base, Mul(pulse_length, j)), Sub(base, Mul(pulse_length, j - 1))>>
                  ELSE <<Mul(rep_rate, 2), Mul(rep_rate, 2)>>]]

\* JvoMarxGenerator.marx_sequence
marx_sequence(s0, pulse_length, dead_time, rep_rate, num_channels, time_between_arg) ==
    LET c == sequence_channels(pulse_length, rep_rate, num_channels, time_between_arg)
    IN  IF c.err # "" THEN Failed(s0, c.err)
        ELSE make_marx(s0, c.channels, dead_time, rep_rate)

\* ------------------------------------------------------------ the inputs
\* the largest num_channels argument tried (values above NUM_CHANNELS overrun the list)
MaxNumChannels == 11
\* the largest channel argument of marx_one tried
MaxChannel == 11
\* set_rep_rate_seconds is tried up to 2^32 + MaxOver cycles
MaxOver == 1
\* the longest staggered delay tried, in clock periods per channel
MaxDelayStep == 1

\* a time of c clock periods and off ns
Cycles(c, off) == Add(Mul(c, clock_period), W(off))

\* the rates at the edge of the register: 2^32 - 3, 2^32 - 1 and 2^32 clock periods
EdgeRepRates ==
    {Cycles(Sub(TwoPow32, W(3)), 0), Cycles(Sub(TwoPow32, W(1)), 0), Cycles(TwoPow32, 0)}

SecondsArgs ==
    {W(-8), W(0), W(3), W(4), W(12), W(1000)}
    \cup {Cycles(Add(TwoPow32, W(d)), off) : d \in (-1)..MaxOver, off \in {0, 4}}

NumChannelArgs == {n \in 0..MaxNumChannels : n = 0 \/ n = 2 \/ n >= NUM_CHANNELS}

\* delay lists for n channels: None, a stagger of whole periods, a positive delay, a list too long
DelayArgs(n) ==
    {<<>>}
    \cup {[k \in 1..n |-> W(0 - step * clock_period * (k - 1))] : step \in 1..MaxDelayStep}
    \cup {[k \in 1..n |-> W(clock_period)], [k \in 1..(n + 1) |-> W(0)]}

\* marx_sync without delays over the rates and dead times, and with delays at 100 ns in 1 us
SyncArgs ==
    {[pulse_length |-> pr[1], dead_time |-> d, rep_rate |-> pr[2], num_channels |-> n,
      delays_begin |-> <<>>, delays_end |-> <<>>] :
        pr \in {<<W(1000), W(2000)>>, <<W(100), W(1000)>>} \cup {<<W(100), r>> : r \in EdgeRepRates},
        d \in {W(90), W(150), W(500)}, n \in NumChannelArgs}
    \cup UNION {
         {[pulse_length |-> W(100), dead_time |-> W(150), rep_rate |-> W(1000), num_channels |-> n,
           delays_begin |-> db, delays_end |-> de] :
             db \in DelayArgs(n), de \in {<<>>, [k \in 1..n |-> W(0)]}} : n \in NumChannelArgs}

DeltaArgs ==
    {[shortest_length |-> W(100), dead_time |-> d, rep_rate |-> W(1000), num_channels |-> n,
      change |-> c] :
        d \in {W(100), W(500)}, n \in NumChannelArgs, c \in {W(0), W(20), W(-10)}}

OneArgs ==
    {[pulse_length |-> W(500), dead_time |-> dr[1], rep_rate |-> dr[2], channel |-> c] :
        dr \in {<<W(100), W(1000)>>, <<W(500), W(1000)>>,
                <<W(100), Cycles(Sub(TwoPow32, W(1)), 0)>>},
        c \in 0..MaxChannel}

SequenceArgs ==
    {[pulse_length |-> W(40), dead_time |-> d, rep_rate |-> W(1000), num_channels |-> n,
      time_between |-> tb] :
        d \in {W(100), W(500)}, n \in NumChannelArgs, tb \in {W(0), W(8)}}

\* windows given to _make_marx directly, placed relative to rep_rate
WindowArgs(rep_rate) ==
    { <<Sub(rep_rate, W(100)), rep_rate>>,
      <<Sub(rep_rate, W(100)), Add(rep_rate, W(50))>>,
      DisabledWindow(rep_rate),
      <<W(-50), W(-10)>>,
      <<Sub(rep_rate, W(12)), Sub(rep_rate, W(4))>>,
      <<Add(rep_rate, W(50)), Sub(rep_rate, W(50))>>,
      <<Sub(rep_rate, W(50)), Sub(rep_rate, W(100))>>,
      <<Sub(Half(rep_rate), W(8)), rep_rate>> }

(* channel lists given to _make_marx directly: three channels of one        *)
(* window, the rest a pulse or disabled; and lists of 9 and of 11 channels  *)
ChannelListArgs(rep_rate) ==
    {[k \in 1..NUM_CHANNELS |-> IF k <= 3 THEN w1 ELSE w2] :
        w1 \in WindowArgs(rep_rate),
        w2 \in {<<Sub(rep_rate, W(100)), rep_rate>>, DisabledWindow(rep_rate)}}
    \cup {[k \in 1..n |-> DisabledWindow(rep_rate)] : n \in {NUM_CHANNELS - 1, NUM_CHANNELS + 1}}

MakeMarxArgs ==
    UNION {{[channels |-> ch, dead_time |-> W(100), rep_rate |-> r] : ch \in ChannelListArgs(r)} :
            r \in {W(1000), Cycles(Sub(TwoPow32, W(1)), 0)}}

\* ------------------------------------------------------------ the state
VARIABLES
    rep_rate_cycles,    \* self.rep_rate_cycles, the latched repetition rate
    call,               \* the last call: its name and arguments
    err,                \* "" when the last call returned, else the exception it raised
    writes,             \* the <<address, value>> pairs the last call gave io.write, in order
    table,              \* the table_list the last call printed, <<>> if it printed none
    io_init             \* the io_init list of the last call when it reached line 292

vars == <<rep_rate_cycles, call, err, writes, table, io_init>>

\* the object as a call finds it
Self == [err |-> "", rep |-> rep_rate_cycles, writes |-> <<>>]

Init ==
    /\ rep_rate_cycles = W(-1)
    /\ call = [op |-> "init", channels |-> <<>>, dead_time |-> W(0), rep_rate |-> W(0), arg |-> 0]
    /\ err = ""
    /\ writes = <<>>
    /\ table = <<>>
    /\ io_init = <<>>

Return(r, c) ==
    /\ rep_rate_cycles' = r.rep
    /\ err' = r.err
    /\ writes' = r.writes
    /\ table' = r.table
    /\ io_init' = r.io_init
    /\ call' = c

SetRepRateSeconds ==
    \E seconds \in SecondsArgs :
        LET r == set_rep_rate_seconds(Self, seconds)
        IN  Return(r @@ [table |-> <<>>, io_init |-> <<>>],
                   [op |-> "set_rep_rate_seconds", channels |-> <<>>, dead_time |-> W(0),
                    rep_rate |-> W(0), arg |-> seconds])

MakeMarx ==
    \E a \in MakeMarxArgs :
        Return(make_marx(Self, a.channels, a.dead_time, a.rep_rate),
               [op |-> "_make_marx", channels |-> a.channels, dead_time |-> a.dead_time,
                rep_rate |-> a.rep_rate, arg |-> 0])

MarxSync ==
    \E a \in SyncArgs :
        Return(marx_sync(Self, a.pulse_length, a.dead_time, a.rep_rate, a.num_channels,
                         a.delays_begin, a.delays_end),
               [op |-> "marx_sync",
                channels |-> sync_channels(a.pulse_length, a.rep_rate, a.num_channels,
                                           a.delays_begin, a.delays_end).channels,
                dead_time |-> a.dead_time, rep_rate |-> a.rep_rate, arg |-> a])

MarxDelta ==
    \E a \in DeltaArgs :
        Return(marx_delta(Self, a.shortest_length, a.dead_time, a.rep_rate, a.num_channels,
                          a.change),
               [op |-> "marx_delta",
                channels |-> delta_channels(a.shortest_length, a.rep_rate, a.num_channels,
                                            a.change).channels,
                dead_time |-> a.dead_time, rep_rate |-> a.rep_rate, arg |-> a])

MarxOne ==
    \E a \in OneArgs :
        Return(marx_one(Self, a.pulse_length, a.dead_time, a.rep_rate, a.channel),
               [op |-> "marx_one",
                channels |-> one_channels(a.pulse_length, a.rep_rate, a.channel).channels,
                dead_time |-> a.dead_time, rep_rate |-> a.rep_rate, arg |-> a])

MarxSequence ==
    \E a \in SequenceArgs :
        Return(marx_sequence(Self, a.pulse_length, a.dead_time, a.rep_rate, a.num_channels,
                             a.time_between),
               [op |-> "marx_sequence",
                channels |-> sequence_channels(a.pulse_length, a.rep_rate, a.num_channels,
                                               a.time_between).channels,
                dead_time |-> a.dead_time, rep_rate |-> a.rep_rate, arg |-> a])

Next ==
    \/ SetRepRateSeconds
    \/ MakeMarx
    \/ MarxSync
    \/ MarxDelta
    \/ MarxOne
    \/ MarxSequence

Spec == Init /\ [][Next]_vars

\* ------------------------------------------------------------ the claims
BuildOps == {"_make_marx", "marx_sync", "marx_delta", "marx_one", "marx_sequence"}

\* the last call was a program build
IsBuild == call.op \in BuildOps

\* the last call was a program build that returned
Succeeded == IsBuild /\ err = ""

\* the plain integer of a wide integer below 2^31
ToInt(w) == w[1] * Base + w[2]

\* the value the last call wrote to register reg
RegValue(reg) ==
    LET i == CHOOSE i \in 1..Len(writes) : writes[i][1] = ADDR_OFFSET * reg
    IN  writes[i][2]

PulseStart(k) == RegValue(4 * (k - 1))

PulseStop(k) == RegValue(4 * (k - 1) + 1)

ChargeStart(k) == RegValue(4 * (k - 1) + 2)

ChargeStop(k) == RegValue(4 * (k - 1) + 3)

\* the written pulse window of channel k lies within the written period
PulseEnabled(k) ==
    /\ Le(PulseStart(k), RegValue(REG_MAX_COUNT))
    /\ Le(PulseStop(k), RegValue(REG_MAX_COUNT))

EnabledChannels == {k \in 1..NUM_CHANNELS : PulseEnabled(k)}

\* bit k of the written mask, k = 1 the first character of the io_init string
MaskBit(k) == (ToInt(RegValue(REG_IO_INIT)) \div (2 ^ (NUM_OUTPUT - k))) % 2

\* a window of the channel list that starts within the period and ends after it
Straddles(output, rep_rate) == Le(output[1], rep_rate) /\ Lt(rep_rate, output[2])

(* C1 as stated: a build that raises has issued no register write, and a    *)
(* build that has issued its first write returns with all 42 issued.        *)
C1_AllOrNothing ==
    IsBuild =>
        /\ (err # "" => writes = <<>>)
        /\ (writes # <<>> => err = "" /\ Len(writes) = 2 + 4 * NUM_CHANNELS)

(* C2: in a build that returns, every charge output is written the window   *)
(* (dead_time_cycles, first_cycles - dead_time_cycles), first_cycles being   *)
(* the smallest start written to an enabled pulse channel, or the period     *)
(* when none is enabled; the window is not empty and ends at least           *)
(* dead_time_cycles before every enabled pulse starts.                       *)
C2_ChargeWindow ==
    Succeeded =>
        LET dead_time_cycles == PyRound(call.dead_time, clock_period)
        IN  \A k \in 1..NUM_CHANNELS :
                LET first_cycles == Add(ChargeStop(k), dead_time_cycles)
                IN  /\ ChargeStart(k) = dead_time_cycles
                    /\ IF EnabledChannels = {}
                       THEN first_cycles = RegValue(REG_MAX_COUNT)
                       ELSE /\ \E j \in EnabledChannels : first_cycles = PulseStart(j)
                            /\ \A j \in EnabledChannels : Le(first_cycles, PulseStart(j))
                    /\ Lt(ChargeStart(k), ChargeStop(k))
                    /\ \A j \in EnabledChannels :
                           Le(Add(ChargeStop(k), dead_time_cycles), PulseStart(j))

\* a build returned with pulses that start at different cycles and a disabled channel
C2_Witness ==
    /\ Succeeded
    /\ \E j, k \in EnabledChannels : Lt(PulseStart(j), PulseStart(k))
    /\ EnabledChannels # 1..NUM_CHANNELS

(* C3: a build that returns has issued exactly 42 writes: the mask to        *)
(* register 40, the period to register 41, then for k = 1..10 the pulse      *)
(* start, pulse stop, charge start and charge stop of channel k to           *)
(* registers 4(k-1) .. 4(k-1)+3, each at address 4 x register, none twice.   *)
C3_WriteOrder ==
    Succeeded =>
        /\ Len(writes) = 42
        /\ writes[1] = <<4 * 40, W(BinValue(io_init))>>
        /\ writes[2] = <<4 * 41, PyRound(call.rep_rate, clock_period)>>
        /\ \A k \in 1..10 :
               /\ writes[2 + 4 * (k - 1) + 1] = <<4 * (4 * (k - 1)), table[k][1]>>
               /\ writes[2 + 4 * (k - 1) + 2] = <<4 * (4 * (k - 1) + 1), table[k][2]>>
               /\ writes[2 + 4 * (k - 1) + 3] = <<4 * (4 * (k - 1) + 2), table[11][1]>>
               /\ writes[2 + 4 * (k - 1) + 4] = <<4 * (4 * (k - 1) + 3), table[11][2]>>
        /\ Cardinality({writes[i][1] : i \in 1..Len(writes)}) = 42

\* a build returned with a pulse whose stop differs from its start, and a charge window
C3_Witness ==
    /\ Succeeded
    /\ Len(writes) = 42
    /\ Lt(table[1][1], table[1][2])
    /\ table[11][1] # table[11][2]

(* C4 as stated: the mask a build that returns has written holds 0 for      *)
(* every enabled pulse channel, 1 for every disabled pulse channel and 1    *)
(* for the ten charge outputs.                                              *)
C4_MaskAsStated ==
    Succeeded =>
        /\ \A k \in 1..NUM_CHANNELS : MaskBit(k) = IF PulseEnabled(k) THEN 0 ELSE 1
        /\ \A k \in (NUM_CHANNELS + 1)..NUM_OUTPUT : MaskBit(k) = 1

(* C4 amended: the mask a build that returns has written holds 1 in all 20  *)
(* bits: for every pulse channel, enabled or disabled, and for the ten      *)
(* charge outputs.                                                          *)
C4_MaskAllOnes ==
    Succeeded => \A k \in 1..NUM_OUTPUT : MaskBit(k) = 1

\* a build returned with enabled and disabled pulse channels and wrote the mask 2^20 - 1
C4_Witness ==
    /\ Succeeded
    /\ EnabledChannels # {}
    /\ EnabledChannels # 1..NUM_CHANNELS
    /\ ToInt(RegValue(REG_IO_INIT)) = 2 ^ NUM_OUTPUT - 1

(* C5 as stated: marx_one passes its range check exactly for a channel      *)
(* number c with 0 < c < 10 and otherwise raises before any write; a c that  *)
(* passes gives channel c the window [rep_rate - pulse_length, rep_rate]     *)
(* and every other channel a window above rep_rate.                          *)
C5_MarxOneRange ==
    call.op = "marx_one" =>
        LET c == call.arg.channel
        IN  IF 0 < c /\ c < 10
            THEN /\ err # "AssertionError"
                 /\ Len(call.channels) = NUM_CHANNELS
                 /\ \A k \in 1..NUM_CHANNELS :
                        IF k = c
                        THEN call.channels[k]
                             = <<Sub(call.rep_rate, call.arg.pulse_length), call.rep_rate>>
                        ELSE /\ Lt(call.rep_rate, call.channels[k][1])
                             /\ Lt(call.rep_rate, call.channels[k][2])
            ELSE err = "AssertionError" /\ writes = <<>>

(* C6 as stated: set_rep_rate_seconds of a non-negative time accepts        *)
(* num_cycles = round(seconds / period), latching it and writing it to      *)
(* register 41, exactly when 0 <= num_cycles <= 2^32 - 1, and otherwise      *)
(* raises the overflow error with no write.                                  *)
C6_OverflowBoundary ==
    (call.op = "set_rep_rate_seconds" /\ Le(W(0), call.arg)) =>
        LET num_cycles == PyRound(call.arg, clock_period)
        IN  IF Le(W(0), num_cycles) /\ Lt(num_cycles, TwoPow32)
            THEN /\ err = ""
                 /\ rep_rate_cycles = num_cycles
                 /\ writes = << <<4 * 41, num_cycles>> >>
            ELSE err = "NumberTooLarge" /\ writes = <<>>

\* the call marx_sync(1 us, 150 ns, 2 us) with 10 channels and no delays
IsSyncScenario ==
    /\ call.op = "marx_sync"
    /\ call.arg.pulse_length = W(1000) /\ call.dead_time = W(150) /\ call.rep_rate = W(2000)
    /\ call.arg.num_channels = 10
    /\ call.arg.delays_begin = <<>> /\ call.arg.delays_end = <<>>

(* C7 as stated: marx_sync(1 us, 150 ns, 2 us) returns with ten pulse       *)
(* windows (125, 250), the cycles of [1 us, 2 us], and the charge window     *)
(* (19, 231), the cycles of [150 ns, 2 us - 150 ns].                         *)
C7_ScenarioAsStated ==
    IsSyncScenario =>
        /\ err = ""
        /\ \A k \in 1..NUM_CHANNELS :
               /\ PulseStart(k) = W(125) /\ PulseStop(k) = W(250)
               /\ ChargeStart(k) = W(19) /\ ChargeStop(k) = W(231)

(* C7 amended: marx_sync(1 us, 150 ns, 2 us) returns with ten pulse windows *)
(* (125, 250), the cycles of [1 us, 2 us], and the charge window (19, 106):  *)
(* from the cycles of 150 ns to the cycles of the pulse start, 1 us, less    *)
(* the cycles of 150 ns.                                                     *)
C7_Scenario ==
    IsSyncScenario =>
        /\ err = ""
        /\ \A k \in 1..NUM_CHANNELS :
               /\ PulseStart(k) = W(125) /\ PulseStop(k) = W(250)
               /\ ChargeStart(k) = W(19) /\ ChargeStop(k) = W(106)
        /\ table = [k \in 1..(NUM_CHANNELS + 1) |->
                        IF k <= NUM_CHANNELS THEN <<W(125), W(250)>> ELSE <<W(19), W(106)>>]

\* the scenario call was made and wrote its program
C7_Witness == IsSyncScenario /\ Len(writes) = 42 /\ table # <<>>

(* C8 as stated: a build whose channel list holds a window with             *)
(* start <= rep_rate < stop raises, issues no write and prints no table in   *)
(* which that window stands as a disabled channel.                           *)
C8_StraddleRejected ==
    (IsBuild /\ \E k \in 1..Len(call.channels) : Straddles(call.channels[k], call.rep_rate)) =>
        /\ err # ""
        /\ writes = <<>>
        /\ table = <<>>

(* C9 as stated: a build that returns leaves the latched rep_rate_cycles    *)
(* equal to its own rep_rate_cycles, and a build that raises leaves it as    *)
(* it was before the call.                                                   *)
C9_LatchOnlyOnSuccess ==
    [][IsBuild' =>
          IF err' = ""
          THEN rep_rate_cycles' = PyRound(call'.rep_rate, clock_period)
          ELSE rep_rate_cycles' = rep_rate_cycles]_vars

(* C10 as stated: every value a build hands to the register-write primitive *)
(* lies in 0 .. 2^32 - 1.                                                   *)
C10_ValuesFitRegister ==
    IsBuild =>
        \A i \in 1..Len(writes) : Le(W(0), writes[i][2]) /\ Lt(writes[i][2], TwoPow32)

====
